---- MODULE Spec2Model ----
(***************************************************************************)
(* Outscale node driver (libcloud/compute/drivers/outscale.py) and the     *)
(* request signer it calls.  The driver is modelled from its source; the   *)
(* signer (libcloud.common.osc.OSCRequestSignerAlgorithmV4) is modelled    *)
(* from the design document (sections 4.1 - 4.3, 7).                       *)
(*                                                                         *)
(* Python values are tagged records: a str is [t |-> "str", v |-> text],   *)
(* a dict is [t |-> "dict", v |-> <<key, value>> pairs in insertion        *)
(* order], a list is [t |-> "list", v |-> items].  Hashes are rendered as  *)
(* text terms, sha256(..) and hmac(key,msg), so that two digests are equal *)
(* exactly when their inputs are.                                          *)
(***************************************************************************)
EXTENDS Integers, Sequences, FiniteSets, TLC

VARIABLES driver, connection, signer, ctor, clock, pc, cur, result, calls,
          nassign, received, fx

vars == <<driver, connection, signer, ctor, clock, pc, cur, result, calls,
          nassign, received, fx>>

(***************************************************************************)
(* Bounds                                                                  *)
(***************************************************************************)
MaxCalls == 2
MaxTicks == 1
MaxAssigns == 1
MaxCreates == 1
MaxOps == 1

Threads == {1, 2}

(***************************************************************************)
(* Python values                                                           *)
(***************************************************************************)
None == "<None>"

PyStr(s) == [t |-> "str", v |-> s]
PyBool(b) == [t |-> "bool", v |-> b]
PyList(xs) == [t |-> "list", v |-> xs]
PyDict(kvs) == [t |-> "dict", v |-> kvs]
PyNone == [t |-> "none"]

dict_update(d, k, x) == PyDict(Append(d.v, <<k, x>>))

RECURSIVE json_dumps_text(_)
RECURSIVE json_dumps_items(_, _)
json_dumps_items(xs, i) ==
    IF i > Len(xs) THEN ""
    ELSE (IF i > 1 THEN ", " ELSE "") \o json_dumps_text(xs[i])
         \o json_dumps_items(xs, i + 1)

RECURSIVE json_dumps_pairs(_, _)
json_dumps_pairs(kvs, i) ==
    IF i > Len(kvs) THEN ""
    ELSE (IF i > 1 THEN ", " ELSE "") \o "\"" \o kvs[i][1] \o "\": "
         \o json_dumps_text(kvs[i][2]) \o json_dumps_pairs(kvs, i + 1)

json_dumps_text(x) ==
    CASE x.t = "str" -> "\"" \o x.v \o "\""
      [] x.t = "bool" -> (IF x.v THEN "true" ELSE "false")
      [] x.t = "none" -> "null"
      [] x.t = "int" -> x.v
      [] x.t = "list" -> "[" \o json_dumps_items(x.v, 1) \o "]"
      [] x.t = "dict" -> "{" \o json_dumps_pairs(x.v, 1) \o "}"

json_dumps(x) == PyStr(json_dumps_text(x))

(***************************************************************************)
(* Time: the clock counts seconds from EPOCH_DATE 00:00:00 UTC.            *)
(***************************************************************************)
SECONDS_PER_DAY == 86400
StartInstant == SECONDS_PER_DAY - 1

Pad2(n) == IF n < 10 THEN "0" \o ToString(n) ELSE ToString(n)

DateStamp(now) == "202301" \o Pad2(1 + (now \div SECONDS_PER_DAY))

FullTimestampMinutes(now) ==
    LET s == now % SECONDS_PER_DAY
    IN DateStamp(now) \o "T" \o Pad2(s \div 3600) \o Pad2((s % 3600) \div 60)
       \o "00Z"

FullTimestamp(now) ==
    LET s == now % SECONDS_PER_DAY
    IN DateStamp(now) \o "T" \o Pad2(s \div 3600) \o Pad2((s % 3600) \div 60)
       \o Pad2(s % 60) \o "Z"

(***************************************************************************)
(* Signer (design document 4.1 - 4.3)                                      *)
(***************************************************************************)
ALGO_PREFIX == "<ALGO_PREFIX>"
DATE_HEADER == "X-<Vendor>-Date"
CONTENT_TYPE == "application/json; charset=utf-8"

SHA256(bytes) == "sha256(" \o bytes \o ")"
HMAC(key, msg) == "hmac(" \o key \o "," \o msg \o ")"

\* Lower-casing of the header names this system uses.
LowerName(n) ==
    CASE n = "Content-Type" -> "content-type"
      [] n = "Host" -> "host"
      [] n = DATE_HEADER -> "x-<vendor>-date"
      [] n = "Authorization" -> "authorization"
      [] OTHER -> n

\* Trimming and collapsing of whitespace in the header values this system
\* uses: none of them has leading, trailing or repeated whitespace, except
\* the padded content type.
TrimCollapse(v) ==
    IF v = "  application/json;  charset=utf-8 " THEN CONTENT_TYPE ELSE v

\* The lower-cased header names in lexicographic order.
NameOrder == <<"authorization", "content-type", "host", "x-<vendor>-date">>

NameRank(n) == CHOOSE i \in 1..Len(NameOrder) : NameOrder[i] = n

NameLess(a, b) == NameRank(a) < NameRank(b)

\* headers are sequences of <<name, value>> pairs in insertion order.
LowerPairs(headers) ==
    [i \in 1..Len(headers) |->
        <<LowerName(headers[i][1]), TrimCollapse(headers[i][2])>>]

RECURSIVE InsertSorted(_, _)
InsertSorted(sorted, p) ==
    IF sorted = <<>> THEN <<p>>
    ELSE IF NameLess(p[1], Head(sorted)[1]) THEN <<p>> \o sorted
    ELSE <<Head(sorted)>> \o InsertSorted(Tail(sorted), p)

RECURSIVE SortHeaders(_, _)
SortHeaders(pairs, i) ==
    IF i > Len(pairs) THEN <<>>
    ELSE InsertSorted(SortHeaders(pairs, i + 1), pairs[i])

CanonicalPairsInsertionOrder(headers) == LowerPairs(headers)

CanonicalPairs(headers) == SortHeaders(LowerPairs(headers), 1)

RECURSIVE CanonicalHeaders(_, _)
CanonicalHeaders(sorted, i) ==
    IF i > Len(sorted) THEN ""
    ELSE sorted[i][1] \o ":" \o sorted[i][2] \o "\n"
         \o CanonicalHeaders(sorted, i + 1)

RECURSIVE SignedHeaders(_, _)
SignedHeaders(sorted, i) ==
    IF i > Len(sorted) THEN ""
    ELSE (IF i > 1 THEN ";" ELSE "") \o sorted[i][1]
         \o SignedHeaders(sorted, i + 1)

SignedHeaderNamesFixed(headers) == "content-type;host;x-<vendor>-date"

\* The signed-headers list of a header list.
SignedHeaderNames(headers) == SignedHeaders(CanonicalPairs(headers), 1)

CanonicalUri(path) == IF path = "" THEN "/" ELSE path

PayloadHash(payload) == SHA256(payload)

\* This system always posts without a query: an absent query and the empty
\* query are the two inputs there are.
CanonicalQuery(query) == IF query = None THEN "" ELSE query

CanonicalRequestSignedFirst(method, uri, query, headers, payload) ==
    LET sorted == CanonicalPairs(headers)
    IN method \o "\n" \o CanonicalUri(uri) \o "\n"
       \o CanonicalQuery(query) \o "\n"
       \o SignedHeaderNames(headers) \o "\n"
       \o CanonicalHeaders(sorted, 1) \o "\n" \o PayloadHash(payload)

CanonicalRequest(method, uri, query, headers, payload) ==
    LET sorted == CanonicalPairs(headers)
    IN method \o "\n" \o CanonicalUri(uri) \o "\n"
       \o CanonicalQuery(query) \o "\n"
       \o CanonicalHeaders(sorted, 1) \o "\n"
       \o SignedHeaderNames(headers) \o "\n" \o PayloadHash(payload)

DeriveSigningKeyRegionLast(secret_key, date_stamp, region, service) ==
    LET k_date == HMAC(ALGO_PREFIX \o secret_key, date_stamp)
        k_service == HMAC(k_date, service)
        k_region == HMAC(k_service, region)
    IN HMAC(k_region, ALGO_PREFIX \o "_request")

DeriveSigningKey(secret_key, date_stamp, region, service) ==
    LET k_date == HMAC(ALGO_PREFIX \o secret_key, date_stamp)
        k_region == HMAC(k_date, region)
        k_service == HMAC(k_region, service)
    IN HMAC(k_service, ALGO_PREFIX \o "_request")

CredentialScope(date_stamp, region, service) ==
    date_stamp \o "/" \o region \o "/" \o service \o "/" \o ALGO_PREFIX
    \o "_request"

StringToSign(full, scope, canonical_request) ==
    ALGO_PREFIX \o "-HMAC-SHA256\n" \o full \o "\n" \o scope \o "\n"
    \o SHA256(canonical_request)

HostOf(service, region) == service \o "." \o region

ActionUri(version, action) == "/api/" \o version \o "/" \o action

\* The bytes the signer hashes: the text of a str payload.  What it makes of
\* a payload that is not a str is not specified; it is some rendering of it.
PayloadBytes(data) ==
    IF data.t = "str" THEN data.v
    ELSE "<unserialized " \o json_dumps_text(data) \o ">"

\* Step 2: the header set built before signing, in the order it is built.
HeaderPairs(service, region, now) ==
    <<<<"Host", HostOf(service, region)>>,
      <<DATE_HEADER, FullTimestamp(now)>>,
      <<"Content-Type", CONTENT_TYPE>>>>

UnsignedHeaders(service, region, now) ==
    LET pairs == HeaderPairs(service, region, now)
    IN [n \in {pairs[i][1] : i \in 1..Len(pairs)} |->
           pairs[CHOOSE i \in 1..Len(pairs) : pairs[i][1] = n][2]]

\* The date stamp of the credential scope and of the key derivation is the
\* date part of the instant captured at the top of sign.
ScopeDateStampReread(now) == DateStamp(clock)

ScopeDateStamp(now) == DateStamp(now)

SigningScope(region, service, now) ==
    CredentialScope(ScopeDateStamp(now), region, service)

SigningKey(secret_key, region, service, now) ==
    DeriveSigningKey(secret_key, ScopeDateStamp(now), region, service)

\* Steps 3-6 for a given header list.
SignedString(headers, version, action, data, service, region, now) ==
    StringToSign(FullTimestamp(now), SigningScope(region, service, now),
                 CanonicalRequest("POST", ActionUri(version, action), "",
                                  headers, PayloadBytes(data)))

Signature(headers, secret_key, version, action, data, service, region, now) ==
    HMAC(SigningKey(secret_key, region, service, now),
         SignedString(headers, version, action, data, service, region, now))

\* Step 7 for a given header list.
AuthorizationWith(headers, access_key, secret_key, version, action, data, service, region, now) ==
    ALGO_PREFIX \o "-HMAC-SHA256 Credential=" \o access_key \o "/"
    \o SigningScope(region, service, now)
    \o ", SignedHeaders=" \o SignedHeaderNames(headers)
    \o ", Signature="
    \o Signature(headers, secret_key, version, action, data, service, region,
                 now)

Authorization(access_key, secret_key, version, action, data, service, region, now) ==
    AuthorizationWith(HeaderPairs(service, region, now), access_key,
                      secret_key, version, action, data, service, region, now)

MissingCredential(access_key, secret_key) ==
    access_key \in {None, ""} \/ secret_key \in {None, ""}

\* The outcomes of one sign call: a set of [ok, headers] / [ok, error].
get_request_headers(sg, action, data, service_name, region, now) ==
    IF MissingCredential(sg.access_key, sg.access_secret)
    THEN {[ok |-> FALSE, error |-> "MissingCredential"]}
    ELSE LET signed ==
                 [ok |-> TRUE,
                  headers |->
                      UnsignedHeaders(service_name, region, now)
                      @@ ("Authorization" :>
                            Authorization(sg.access_key, sg.access_secret,
                                          sg.version, action, data,
                                          service_name, region, now))]
         IN IF data.t = "str" THEN {signed}
            ELSE {signed, [ok |-> FALSE, error |-> "MalformedInput"]}

(***************************************************************************)
(* Driver construction                                                     *)
(***************************************************************************)
\* <<key, secret>> as given to the constructor; <<None, None>> are the defaults.
Credentials ==
    {<<None, None>>, <<"AKIDEXAMPLE", "">>, <<"AKIDEXAMPLE", "secret123">>}
Regions == {"eu-west-2", "us-east-1"}
Services == {"api", "fcu"}

ConnectionUserAndKey(key, secret) == [user_id |-> key, key |-> secret]

\* Variant: the two credential arguments are passed in each other's place.
OSCRequestSignerAlgorithmV4Swapped(access_key, access_secret, version) ==
    [access_key |-> access_secret, access_secret |-> access_key,
     version |-> version]

OSCRequestSignerAlgorithmV4(access_key, access_secret, version) ==
    [access_key |-> access_key, access_secret |-> access_secret,
     version |-> version]

NODE_STATE ==
    [s \in {"pending", "running", "shutting-down", "terminated", "stopped"} |->
        CASE s = "pending" -> "PENDING"
          [] s = "running" -> "RUNNING"
          [] s = "shutting-down" -> "UNKNOWN"
          [] s = "terminated" -> "TERMINATED"
          [] s = "stopped" -> "STOPPED"]

NoCall == [id |-> 0]
NoResult == [kind |-> "none"]
NoResponse == [op |-> "none"]
NoFx == [stage |-> "off"]

\* __init__: the objects the constructor builds from its arguments.
Constructed(key, secret, region, service, version, base_uri) ==
    [ctor |-> [key |-> key, secret |-> secret, region |-> region,
               service |-> service, version |-> version,
               base_uri |-> base_uri],
     driver |-> [key |-> key, secret |-> secret, region |-> region,
                 service_name |-> service, base_uri |-> base_uri,
                 version |-> version],
     connection |-> ConnectionUserAndKey(key, secret)
                    @@ [region_name |-> region, service_name |-> service],
     signer |-> OSCRequestSignerAlgorithmV4(key, secret, version)]

Init ==
    \E cred \in Credentials, region \in Regions :
        LET built == Constructed(cred[1], cred[2], region, "api", "latest",
                                 "outscale.com")
        IN /\ ctor = built.ctor
           /\ driver = built.driver
           /\ connection = built.connection
           /\ signer = built.signer
           /\ clock = StartInstant
           /\ pc = [t \in Threads |-> "idle"]
           /\ cur = [t \in Threads |-> NoCall]
           /\ result = [t \in Threads |-> NoResult]
           /\ calls = <<>>
           /\ nassign = 0
           /\ received = [t \in Threads |-> NoResponse]
           /\ fx = NoFx

(***************************************************************************)
(* Public operations: the action name and the payload each one builds      *)
(***************************************************************************)
ex_delete_public_ip(dry_run, public_ip, public_ip_id) ==
    LET d0 == PyDict(<<<<"DryRun", PyBool(dry_run)>>>>)
        d1 == IF public_ip # None
              THEN dict_update(d0, "PublicIp", PyStr(public_ip)) ELSE d0
        d2 == IF public_ip_id # None
              THEN dict_update(d1, "PublicIpId", PyStr(public_ip_id)) ELSE d1
    IN [op |-> "ex_delete_public_ip", action |-> "DeletePublicIp",
        data |-> json_dumps(d2)]

reboot_node(node_id) ==
    [op |-> "reboot_node", action |-> "RebootVms",
     data |-> json_dumps(PyDict(<<<<"VmIds", PyList(<<PyStr(node_id)>>)>>>>))]

list_nodes(ex_data) ==
    [op |-> "list_nodes", action |-> "ReadVms", data |-> PyStr(ex_data)]

get_image(image_id) ==
    [op |-> "get_image", action |-> "ReadImages",
     data |-> PyStr("{\"Filters\": {\"ImageIds\": [\"" \o image_id \o "\"]}}")]

list_volume_snapshots(volume_id) ==
    [op |-> "list_volume_snapshots", action |-> "ReadSnapshots",
     data |-> PyDict(<<<<"Filters",
                 PyDict(<<<<"VolumeIds", PyList(<<PyStr(volume_id)>>)>>>>)>>>>)]

ex_list_tags(resource_ids, resource_types, keys, values, dry_run) ==
    LET f0 == PyDict(<<>>)
        f1 == IF resource_ids # PyNone
              THEN dict_update(f0, "ResourceIds", resource_ids) ELSE f0
        f2 == IF resource_types # PyNone
              THEN dict_update(f1, "ResourceTypes", resource_types) ELSE f1
        f3 == IF keys # PyNone THEN dict_update(f2, "Keys", keys) ELSE f2
        f4 == IF values # PyNone THEN dict_update(f3, "Values", values) ELSE f3
    IN [op |-> "ex_list_tags", action |-> "ReadTags",
        data |-> json_dumps(PyDict(<<<<"Filters", f4>>,
                                     <<"DryRun", PyBool(dry_run)>>>>))]

ex_list_direct_link(direct_link_ids, dry_run) ==
    LET f0 == PyDict(<<>>)
        f1 == IF direct_link_ids # PyNone
              THEN dict_update(f0, "DirectLinkIds", direct_link_ids) ELSE f0
        data == PyDict(<<<<"DryRun", PyBool(dry_run)>>, <<"Filters", f1>>>>)
    IN [op |-> "ex_list_direct_link", action |-> "DeleteDirectLink",
        data |-> json_dumps(data), payload |-> data,
        args |-> <<direct_link_ids, dry_run>>]

ex_list_direct_link_interfaces(direct_link_ids, direct_link_interface_ids, dry_run) ==
    LET f0 == PyDict(<<>>)
        f1 == IF direct_link_ids # PyNone
              THEN dict_update(f0, "DirectLinkIds", direct_link_ids) ELSE f0
        f2 == IF direct_link_interface_ids # PyNone
              THEN dict_update(f1, "DirectLinkInterfaceIds",
                               direct_link_interface_ids)
              ELSE f1
        data == PyDict(<<<<"DryRun", PyBool(dry_run)>>, <<"Filters", f2>>>>)
    IN [op |-> "ex_list_direct_link_interfaces",
        action |-> "DeleteDirectLink",
        data |-> json_dumps(data), payload |-> data,
        args |-> <<direct_link_ids, direct_link_interface_ids, dry_run>>]

\* The payload of list_volumes is the caller's text; no dict is built.
list_volumes(ex_data) ==
    [op |-> "list_volumes", action |-> "ReadVolumes", data |-> PyStr(ex_data),
     payload |-> PyNone, args |-> <<ex_data>>]

\* d[k] = x: the entry of an existing key is replaced where it stands.
dict_set(d, k, x) ==
    IF \E i \in 1..Len(d.v) : d.v[i][1] = k
    THEN PyDict([i \in 1..Len(d.v) |->
                    IF d.v[i][1] = k THEN <<k, x>> ELSE d.v[i]])
    ELSE dict_update(d, k, x)

\* for key, value in zip(tag_keys, tag_values):
\*     data["Tags"].update({"Key": key, "Value": value})
RECURSIVE TagsAfterLoop(_, _, _, _)
TagsAfterLoop(tags, tag_keys, tag_values, i) ==
    IF i > Len(tag_keys) \/ i > Len(tag_values) THEN tags
    ELSE TagsAfterLoop(dict_set(dict_set(tags, "Key", PyStr(tag_keys[i])),
                                "Value", PyStr(tag_values[i])),
                       tag_keys, tag_values, i + 1)

\* A list argument is truthy when it is neither None nor empty.
Truthy(list) == list # PyNone /\ list.v # <<>>

ex_create_load_balancer_tags(load_balancer_names, tag_keys, tag_values, dry_run) ==
    LET d0 == PyDict(<<<<"DryRun", PyBool(dry_run)>>, <<"Tags", PyDict(<<>>)>>>>)
        d1 == IF load_balancer_names # PyNone
              THEN dict_update(d0, "LoadBalancerNames", load_balancer_names)
              ELSE d0
        d2 == IF Truthy(tag_keys) /\ Truthy(tag_values)
                 /\ Len(tag_keys.v) = Len(tag_values.v)
              THEN dict_set(d1, "Tags",
                            TagsAfterLoop(PyDict(<<>>), tag_keys.v,
                                          tag_values.v, 1))
              ELSE d1
    IN [op |-> "ex_create_load_balancer_tags",
        action |-> "CreateLoadBalancerTags",
        data |-> json_dumps(d2), payload |-> d2,
        args |-> <<load_balancer_names, tag_keys, tag_values, dry_run>>]

attach_volume(node_id, volume_id, device) ==
    LET data == PyDict(<<<<"VmId", PyStr(node_id)>>,
                         <<"VolumeId", PyStr(volume_id)>>,
                         <<"DeviceName",
                           IF device = None THEN PyNone ELSE PyStr(device)>>>>)
    IN [op |-> "attach_volume", action |-> "LinkVolume",
        data |-> json_dumps(data), payload |-> data,
        args |-> <<node_id, volume_id, device>>]

\* size is an int or None; its digits are kept as text.
create_volume(ex_subregion_name, ex_dry_run, ex_iops, size, snapshot_id, ex_volume_type) ==
    LET d0 == PyDict(<<<<"DryRun", PyBool(ex_dry_run)>>,
                       <<"SubregionName", PyStr(ex_subregion_name)>>>>)
        d1 == IF ex_iops # None
              THEN dict_update(d0, "Iops", [t |-> "int", v |-> ex_iops])
              ELSE d0
        d2 == IF size # None
              THEN dict_update(d1, "Size", [t |-> "int", v |-> size]) ELSE d1
        d3 == IF snapshot_id # None
              THEN dict_update(d2, "SnapshotId", PyStr(snapshot_id)) ELSE d2
        d4 == IF ex_volume_type # None
              THEN dict_update(d3, "VolumeType", PyStr(ex_volume_type)) ELSE d3
    IN [op |-> "create_volume", action |-> "CreateVolume",
        data |-> json_dumps(d4), payload |-> d4,
        args |-> <<ex_subregion_name, ex_dry_run, ex_iops, size, snapshot_id,
                   ex_volume_type>>]

\* create_node: the three requests it can make.  The optional arguments
\* other than ex_keypair_name are left at their defaults.
create_node(image_id, name, ex_dry_run, ex_keypair_name) ==
    LET d0 == PyDict(<<<<"DryRun", PyBool(ex_dry_run)>>,
                       <<"BootOnCreation", PyBool(TRUE)>>,
                       <<"BsuOptimized", PyBool(TRUE)>>,
                       <<"ImageId", PyStr(image_id)>>>>)
        d1 == dict_update(d0, "DeletionProtection", PyBool(FALSE))
        d2 == IF ex_keypair_name # None
              THEN dict_update(d1, "KeypairName", PyStr(ex_keypair_name))
              ELSE d1
    IN [op |-> "create_node", action |-> "CreateVms", data |-> json_dumps(d2),
        name |-> name, ex_dry_run |-> ex_dry_run]

create_node_CreateTags(node_id, name, ex_dry_run) ==
    [op |-> "create_node", action |-> "CreateTags",
     data |-> json_dumps(PyDict(<<
         <<"DryRun", PyBool(ex_dry_run)>>,
         <<"ResourceIds", PyList(<<PyStr(node_id)>>)>>,
         <<"Tags", PyDict(<<<<"Key", PyStr("Name")>>,
                            <<"Value", PyStr(name)>>>>)>>>>)),
     name |-> name, ex_dry_run |-> ex_dry_run]

create_node_ReadVms(node_id, name, ex_dry_run) ==
    [op |-> "create_node", action |-> "ReadVms",
     data |-> json_dumps(PyDict(<<
         <<"DryRun", PyBool(ex_dry_run)>>,
         <<"Filters",
           PyDict(<<<<"VmIds", PyList(<<PyStr(node_id)>>)>>>>)>>>>)),
     name |-> name, ex_dry_run |-> ex_dry_run]

CreateRequests ==
    {create_node("ami-1", name, FALSE, None) : name \in {None, "web"}}

Requests ==
    {ex_delete_public_ip(FALSE, ip, None) : ip \in {None, "192.0.2.1"}}
    \cup {reboot_node("i-1")}
    \cup {list_nodes("{}")}
    \cup {get_image("ami-1")}
    \cup {list_volume_snapshots("vol-1")}
    \cup {ex_list_tags(PyList(<<PyStr("i-1")>>), PyNone, PyNone, PyNone, FALSE)}

(***************************************************************************)
(* Response translation                                                    *)
(***************************************************************************)
Value(x) == [kind |-> "value", value |-> x]
Raise(e) == [kind |-> "exc", exc |-> e]

RECURSIVE TagName(_, _, _)
TagName(tags, i, name) ==
    IF i > Len(tags) THEN name
    ELSE TagName(tags, i + 1,
                 IF tags[i].Key = "Name" THEN tags[i].Value ELSE name)

\* Variant: a state that is not in NODE_STATE becomes UNKNOWN.
_to_node_lenient(vm) ==
    Value([id |-> vm.VmId,
           name |-> TagName(vm.Tags, 1, ""),
           state |-> IF vm.State \in DOMAIN NODE_STATE
                     THEN NODE_STATE[vm.State] ELSE "UNKNOWN",
           public_ips |-> <<>>,
           private_ips |-> IF "Nics" \in DOMAIN vm
                           THEN vm.Nics.PrivateIps ELSE <<>>,
           extra |-> vm])

_to_node(vm) ==
    IF vm.State \notin DOMAIN NODE_STATE THEN Raise("KeyError")
    ELSE Value([id |-> vm.VmId,
                name |-> TagName(vm.Tags, 1, ""),
                state |-> NODE_STATE[vm.State],
                public_ips |-> <<>>,
                private_ips |-> IF "Nics" \in DOMAIN vm
                                THEN vm.Nics.PrivateIps ELSE <<>>,
                extra |-> vm])

_to_node_image(image) ==
    IF "NodeId" \notin DOMAIN image THEN Raise("KeyError")
    ELSE Value([id |-> image.NodeId,
                name |-> TagName(image.Tags, 1, ""),
                extra |-> image])

_to_snapshot(snapshot) ==
    Value([id |-> snapshot.SnapshotId,
           name |-> TagName(snapshot.Tags, 1, None),
           size |-> snapshot.VolumeSize,
           state |-> snapshot.State,
           created |-> None,
           extra |-> snapshot])

\* A list comprehension: the first element that raises ends it.
RECURSIVE Comprehension(_, _, _)
Comprehension(rs, i, acc) ==
    IF i > Len(rs) THEN Value(acc)
    ELSE IF rs[i].kind = "exc" THEN rs[i]
    ELSE Comprehension(rs, i + 1, Append(acc, rs[i].value))

_to_nodes(vms) == Comprehension([i \in 1..Len(vms) |-> _to_node(vms[i])], 1, <<>>)

_to_snapshots(snapshots) ==
    Comprehension([i \in 1..Len(snapshots) |-> _to_snapshot(snapshots[i])],
                  1, <<>>)

_to_volume(volume) ==
    Value([id |-> volume.VolumeId,
           name |-> TagName(volume.Tags, 1, ""),
           size |-> volume.Size,
           state |-> volume.State,
           extra |-> volume])

\* The depth at which the interpreter gives up a recursion (1000 in
\* CPython; any depth gives the same outcome here).
RecursionLimit == 4

\* The keys of a volume of the response, in the order the service sends them.
VolumeKeys(volume) ==
    SelectSeq(<<"VolumeId", "Size", "State", "Tags">>,
              LAMBDA k : k \in DOMAIN volume)

\* Iterating a str gives its characters, each a str of length one.
Chars(s) ==
    CASE s = "" -> <<>>
      [] s = "VolumeId" -> <<"V", "o", "l", "u", "m", "e", "I", "d">>
      [] s = "Size" -> <<"S", "i", "z", "e">>
      [] s = "State" -> <<"S", "t", "a", "t", "e">>
      [] s = "Tags" -> <<"T", "a", "g", "s">>
      [] OTHER -> <<s>>

\* _to_volumes calls itself on every element of its argument: on each
\* volume of the list, then on each key of a volume (iterating a dict gives
\* its keys), then on each character of a key, then on that character again.
RECURSIVE _to_volumes_each(_, _, _, _, _)
RECURSIVE _to_volumes_at(_, _, _)
_to_volumes_each(kind, items, i, depth, acc) ==
    IF i > Len(items) THEN Value(acc)
    ELSE LET r == _to_volumes_at(kind, items[i], depth + 1)
         IN IF r.kind = "exc" THEN r
            ELSE _to_volumes_each(kind, items, i + 1, depth,
                                  Append(acc, r.value))

_to_volumes_at(kind, x, depth) ==
    IF depth > RecursionLimit THEN Raise("RecursionError")
    ELSE CASE kind = "list" -> _to_volumes_each("dict", x, 1, depth, <<>>)
           [] kind = "dict" ->
                 _to_volumes_each("str", VolumeKeys(x), 1, depth, <<>>)
           [] kind = "str" -> _to_volumes_each("str", Chars(x), 1, depth, <<>>)

_to_volumes(volumes) == _to_volumes_at("list", volumes, 1)

\* Variant: the comparison with 200 is inverted.
StatusResultInverted(response) == Value(PyBool(response.status_code # 200))

\* if response.status_code == 200: return True / return False
StatusResult(response) == Value(PyBool(response.status_code = 200))

Subscript(json, key) == key \in DOMAIN json

Return(op, response) ==
    CASE op \in {"ex_delete_public_ip", "reboot_node"} -> StatusResult(response)
      [] op = "list_nodes" ->
            IF Subscript(response.json, "Vms")
            THEN _to_nodes(response.json["Vms"]) ELSE Raise("KeyError")
      [] op = "get_image" ->
            IF ~Subscript(response.json, "Images") THEN Raise("KeyError")
            ELSE IF response.json["Images"] = <<>> THEN Raise("IndexError")
            ELSE _to_node_image(response.json["Images"][1])
      [] op = "ex_list_tags" ->
            IF response.status_code = 200
            THEN IF Subscript(response.json, "Tags")
                 THEN Value(response.json["Tags"]) ELSE Raise("KeyError")
            ELSE Value(response.json)
      [] op = "list_volume_snapshots" ->
            IF Subscript(response.json, "Snapshots")
            THEN _to_snapshots(response.json["Snapshots"])
            ELSE Raise("KeyError")
      [] op = "list_volumes" ->
            IF Subscript(response.json, "Volumes")
            THEN _to_volumes(response.json["Volumes"]) ELSE Raise("KeyError")
      [] op = "attach_volume" -> StatusResult(response)
      [] op = "create_volume" ->
            IF Subscript(response.json, "Volume")
            THEN _to_volume(response.json["Volume"]) ELSE Raise("KeyError")
      [] op = "ex_create_load_balancer_tags" ->
            IF response.status_code = 200
            THEN IF Subscript(response.json, "LoadBalancer")
                 THEN Value(response.json["LoadBalancer"])
                 ELSE Raise("KeyError")
            ELSE Value(response.json)
      [] op = "ex_list_direct_link" ->
            IF response.status_code = 200
            THEN IF Subscript(response.json, "DirectLinks")
                 THEN Value(response.json["DirectLinks"])
                 ELSE Raise("KeyError")
            ELSE Value(response.json)
      [] op = "ex_list_direct_link_interfaces" ->
            IF response.status_code = 200
            THEN IF Subscript(response.json, "DirectLinkInterfaces")
                 THEN Value(response.json["DirectLinkInterfaces"])
                 ELSE Raise("KeyError")
            ELSE Value(response.json)

(***************************************************************************)
(* The remote service and the transport                                    *)
(***************************************************************************)
OkBody(action) ==
    CASE action = "ReadVms" ->
            {"Vms" :> <<[VmId |-> "i-1", State |-> s, Tags |-> <<>>]>> :
                s \in {"running", "stopping"}}
            \cup {"Vms" :> <<[VmId |-> "i-1", State |-> a, Tags |-> <<>>],
                             [VmId |-> "i-2", State |-> b,
                              Tags |-> <<[Key |-> "Name", Value |-> "db"]>>]>> :
                     a \in {"pending"},
                     b \in {"shutting-down", "terminated", "stopped",
                            "stopping"}}
      [] action = "ReadImages" ->
            {"Images" :> <<[ImageId |-> "ami-1", Tags |-> <<>>]>>}
      [] action = "ReadSnapshots" ->
            {"Snapshots" :> <<[SnapshotId |-> "snap-1", VolumeSize |-> 10,
                               State |-> "completed", Tags |-> <<>>]>>}
      [] action = "ReadTags" ->
            {"Tags" :> <<[Key |-> "Name", Value |-> "web",
                          ResourceId |-> "i-1", ResourceType |-> "vm"]>>}
      [] action = "ReadVolumes" ->
            {"Volumes" :> vs :
                vs \in {<<>>,
                        <<[VolumeId |-> "vol-1", Size |-> 10,
                           State |-> "available", Tags |-> <<>>]>>,
                        <<[VolumeId |-> "vol-1", Size |-> 10,
                           State |-> "available", Tags |-> <<>>],
                          [VolumeId |-> "vol-2", Size |-> 20,
                           State |-> "in-use", Tags |-> <<>>]>>}}
      [] action = "CreateVolume" ->
            {"Volume" :> [VolumeId |-> "vol-3", Size |-> 10,
                          State |-> "creating", Tags |-> <<>>]}
      [] action = "CreateLoadBalancerTags" ->
            {"ResponseContext" :> <<>>,
             "LoadBalancer" :> [LoadBalancerName |-> "lb-1"]}
      [] action = "ReadDirectLinks" ->
            {"DirectLinks" :> <<[DirectLinkId |-> "dxcon-1"]>>}
      [] action = "ReadDirectLinkInterfaces" ->
            {"DirectLinkInterfaces" :>
                 <<[DirectLinkInterfaceId |-> "dxvif-1"]>>}
      [] action = "CreateVms" ->
            {"Vms" :> <<[VmId |-> v, State |-> "pending", Tags |-> <<>>]>> :
                v \in {"i-2", "i-3"}}
      [] OTHER -> {"ResponseContext" :> <<>>}

ErrorBody == "Errors" :> <<[Code |-> "1", Type |-> "AccessDenied"]>>

ServiceResponses(action) ==
    {[status_code |-> 200, json |-> b] : b \in OkBody(action)}
    \cup {[status_code |-> 401, json |-> ErrorBody]}

\* requests.post(data=...): a str is sent as it is, a dict is form-encoded
\* (each key with the elements its value iterates over).
RECURSIVE FormEncode(_, _)
FormEncode(kvs, i) ==
    IF i > Len(kvs) THEN ""
    ELSE LET val == kvs[i][2]
             item == CASE val.t = "str" -> val.v
                       [] val.t = "bool" -> (IF val.v THEN "True" ELSE "False")
                       [] val.t = "dict" ->
                            (IF val.v = <<>> THEN "" ELSE val.v[1][1])
                       [] OTHER -> json_dumps_text(val)
         IN (IF i > 1 THEN "&" ELSE "") \o kvs[i][1] \o "=" \o item
            \o FormEncode(kvs, i + 1)

RequestBody(data) == IF data.t = "str" THEN data.v ELSE FormEncode(data.v, 1)

(***************************************************************************)
(* _call_api and its helpers                                               *)
(***************************************************************************)
\* Variant: region and version are formatted in each other's place.
_get_outscale_endpoint_swapped(region, version, action) ==
    "https://api." \o version \o "." \o driver.base_uri \o "/api/" \o region
    \o "/" \o action

\* Variant: the credential is put in the URL as user information.
_get_outscale_endpoint_userinfo(region, version, action) ==
    "https://" \o driver.key \o ":" \o driver.secret \o "@api." \o region
    \o "." \o driver.base_uri \o "/api/" \o version \o "/" \o action

_get_outscale_endpoint(region, version, action) ==
    "https://api." \o region \o "." \o driver.base_uri \o "/api/" \o version
    \o "/" \o action

\* The arguments _ex_generate_headers hands to the signer.
SignerArgsSwapped(action, data) ==
    [action |-> action, data |-> data,
     service_name |-> driver.region, region |-> driver.service_name]

SignerArgsDefaultRegion(action, data) ==
    [action |-> action, data |-> data,
     service_name |-> driver.service_name, region |-> "eu-west-2"]

SignerArgs(action, data) ==
    [action |-> action, data |-> data,
     service_name |-> driver.service_name, region |-> driver.region]

\* Variant: a per-request counter is appended to the action that is signed.
_ex_generate_headers_counted(action, data) ==
    LET a == SignerArgs(action \o "?n=" \o ToString(Len(calls)), data)
    IN get_request_headers(signer, a.action, a.data, a.service_name, a.region,
                           clock)

\* Variant: the header set of the first signed call is kept and handed out
\* again to every later call.
_ex_generate_headers_memo(action, data) ==
    LET a == SignerArgs(action, data)
        done == {id \in 1..Len(calls) :
                    /\ calls[id].signs # <<>>
                    /\ calls[id].signs[1].out.ok}
    IN IF done # {}
       THEN {calls[CHOOSE id \in done : \A j \in done : id <= j].signs[1].out}
       ELSE get_request_headers(signer, a.action, a.data, a.service_name,
                                a.region, clock)

_ex_generate_headers(action, data) ==
    LET a == SignerArgs(action, data)
    IN get_request_headers(signer, a.action, a.data, a.service_name, a.region,
                           clock)

\* calls[id] is the record of the id-th _call_api invocation: what was asked,
\* what the signer was given and returned, and what was put on the wire.
NewCall(t, req) ==
    [t |-> t, op |-> req.op, action |-> req.action, data |-> req.data,
     signs |-> <<>>, posts |-> <<>>]

\* The caller runs a new operation on the first idle thread.
Invoke(t) ==
    /\ pc[t] = "idle"
    /\ \A u \in Threads : u < t => pc[u] # "idle"
    /\ Len(calls) < MaxCalls
    /\ \E req \in Requests : calls' = Append(calls, NewCall(t, req))
    /\ cur' = [cur EXCEPT ![t] = [id |-> Len(calls) + 1]]
    /\ pc' = [pc EXCEPT ![t] = "sign"]
    /\ result' = [result EXCEPT ![t] = NoResult]
    /\ received' = [received EXCEPT ![t] = NoResponse]
    /\ UNCHANGED <<driver, connection, signer, ctor, clock, nassign, fx>>

\* Variant: the header set is kept on the driver, shared by the calls in
\* progress.
HeadersAfterSignShared(t, headers) ==
    [u \in Threads |->
        IF u = t \/ pc[u] \in {"post", "wait"}
        THEN [id |-> cur[u].id, headers |-> headers] ELSE cur[u]]

\* headers = ... : the header set is bound to a local of this call.
HeadersAfterSign(t, headers) ==
    [cur EXCEPT ![t] = [id |-> cur[t].id, headers |-> headers]]

\* Variant: the signer's error is swallowed and the request goes out unsigned.
OnSignErrorSwallowed(t, error) ==
    [pc |-> "post", cur |-> [id |-> cur[t].id, headers |-> <<>>],
     result |-> NoResult]

\* An error raised by the signer propagates out of _call_api and out of the
\* operation: the call is over and the caller sees the error.
OnSignError(t, error) ==
    [pc |-> "idle", cur |-> NoCall, result |-> Raise(error)]

\* _call_api, line 1: headers = self._ex_generate_headers(action, data)
Sign(t) ==
    LET id == cur[t].id
        c == calls[id]
    IN /\ pc[t] = "sign"
       /\ \E out \in _ex_generate_headers(c.action, c.data) :
             /\ calls' = [calls EXCEPT ![id].signs =
                             Append(@, [args |-> SignerArgs(c.action, c.data),
                                        now |-> clock, out |-> out])]
             /\ IF out.ok
                THEN /\ cur' = HeadersAfterSign(t, out.headers)
                     /\ pc' = [pc EXCEPT ![t] = "post"]
                     /\ UNCHANGED result
                ELSE LET e == OnSignError(t, out.error)
                     IN /\ cur' = [cur EXCEPT ![t] = e.cur]
                        /\ pc' = [pc EXCEPT ![t] = e.pc]
                        /\ result' = [result EXCEPT ![t] = e.result]
       /\ UNCHANGED <<driver, connection, signer, ctor, clock, nassign,
                      received, fx>>

\* Variant: the headers argument is left out of the POST.
requests_post_no_headers(endpoint, data, headers) ==
    [url |-> endpoint, data |-> data, body |-> RequestBody(data),
     headers |-> <<>>]

\* requests.post(endpoint, data=data, headers=headers): what goes on the wire.
requests_post(endpoint, data, headers) ==
    [url |-> endpoint, data |-> data, body |-> RequestBody(data),
     headers |-> headers]

\* Variant: the request is sent again after it was sent.
AfterPostResend == "post"

\* _call_api returns what the single POST returns.
AfterPost == "wait"

\* _call_api, lines 2-3: the endpoint is built and the request is posted.
Post(t) ==
    LET id == cur[t].id
        c == calls[id]
    IN /\ pc[t] = "post"
       /\ calls' = [calls EXCEPT ![id].posts =
                       Append(@, requests_post(
                                     _get_outscale_endpoint(driver.region,
                                                            driver.version,
                                                            c.action),
                                     c.data, cur[t].headers))]
       /\ pc' = [pc EXCEPT ![t] = AfterPost]
       /\ UNCHANGED <<driver, connection, signer, ctor, clock, cur,
                      result, nassign, received, fx>>

\* The service answers and the operation returns.
Respond(t) ==
    LET id == cur[t].id
        c == calls[id]
    IN /\ pc[t] = "wait"
       /\ \E response \in ServiceResponses(c.action) :
             /\ result' = [result EXCEPT ![t] = Return(c.op, response)]
             /\ received' = [received EXCEPT
                                ![t] = [op |-> c.op, response |-> response]]
       /\ cur' = [cur EXCEPT ![t] = NoCall]
       /\ pc' = [pc EXCEPT ![t] = "idle"]
       /\ UNCHANGED <<driver, connection, signer, ctor, clock, calls, nassign,
                      fx>>

\* The transport gives up on the pending POST; the exception propagates.
Abort(t) ==
    /\ pc[t] = "wait"
    /\ result' = [result EXCEPT ![t] = Raise("Timeout")]
    /\ cur' = [cur EXCEPT ![t] = NoCall]
    /\ pc' = [pc EXCEPT ![t] = "idle"]
    /\ UNCHANGED <<driver, connection, signer, ctor, clock, calls,
                   nassign, received, fx>>

\* .json()["Vms"][0] handed to _to_node.
FirstVm(response) ==
    IF ~Subscript(response.json, "Vms") THEN Raise("KeyError")
    ELSE IF response.json["Vms"] = <<>> THEN Raise("IndexError")
    ELSE _to_node(response.json["Vms"][1])

\* A _call_api invocation made by create_node: inv is the first call of the
\* create_node invocation it belongs to, answer the response it got.
NewCreateCall(t, req, inv) ==
    NewCall(t, req)
    @@ [inv |-> inv, name |-> req.name, ex_dry_run |-> req.ex_dry_run,
        answer |-> NoResponse]

InvokeCreate(t) ==
    /\ pc[t] = "idle"
    /\ \A u \in Threads : u < t => pc[u] # "idle"
    /\ Cardinality({id \in 1..Len(calls) : calls[id].action = "CreateVms"})
           < MaxCreates
    /\ \E req \in CreateRequests :
          calls' = Append(calls, NewCreateCall(t, req, Len(calls) + 1))
    /\ cur' = [cur EXCEPT ![t] = [id |-> Len(calls) + 1]]
    /\ pc' = [pc EXCEPT ![t] = "sign"]
    /\ result' = [result EXCEPT ![t] = NoResult]
    /\ received' = [received EXCEPT ![t] = NoResponse]
    /\ UNCHANGED <<driver, connection, signer, ctor, clock, nassign, fx>>

\* Variant: the node is read back before it is tagged.
create_node_next_read_first(c, response, node) ==
    CASE c.action = "CreateVms" ->
            LET made == FirstVm(response)
            IN IF made.kind = "exc" \/ c.name = None
               THEN [done |-> TRUE, result |-> made]
               ELSE [done |-> FALSE,
                     req |-> create_node_ReadVms(made.value.id, c.name,
                                                 c.ex_dry_run)]
      [] c.action = "ReadVms" ->
            [done |-> FALSE,
             req |-> create_node_CreateTags(node.id, c.name, c.ex_dry_run)]
      [] c.action = "CreateTags" ->
            [done |-> TRUE,
             result |-> IF response.status_code # 200
                        THEN Value(PyBool(FALSE)) ELSE Value(node)]

\* Variant: the status of the CreateTags call is not looked at.
create_node_next_untested(c, response, node) ==
    CASE c.action = "CreateVms" ->
            LET made == FirstVm(response)
            IN IF made.kind = "exc" \/ c.name = None
               THEN [done |-> TRUE, result |-> made]
               ELSE [done |-> FALSE,
                     req |-> create_node_CreateTags(made.value.id, c.name,
                                                    c.ex_dry_run)]
      [] c.action = "CreateTags" ->
            [done |-> FALSE,
             req |-> create_node_ReadVms(node.id, c.name, c.ex_dry_run)]
      [] c.action = "ReadVms" -> [done |-> TRUE, result |-> FirstVm(response)]

\* What create_node does with the response of the call it just made: it
\* returns, or it makes its next call.  node is the Node built from the
\* CreateVms response.
create_node_next(c, response, node) ==
    CASE c.action = "CreateVms" ->
            LET made == FirstVm(response)
            IN IF made.kind = "exc" \/ c.name = None
               THEN [done |-> TRUE, result |-> made]
               ELSE [done |-> FALSE,
                     req |-> create_node_CreateTags(made.value.id, c.name,
                                                    c.ex_dry_run)]
      [] c.action = "CreateTags" ->
            IF response.status_code # 200
            THEN [done |-> TRUE, result |-> Value(PyBool(FALSE))]
            ELSE [done |-> FALSE,
                  req |-> create_node_ReadVms(node.id, c.name, c.ex_dry_run)]
      [] c.action = "ReadVms" -> [done |-> TRUE, result |-> FirstVm(response)]

\* The service answers a call of create_node.
RespondCreate(t) ==
    LET id == cur[t].id
        c == calls[id]
    IN /\ pc[t] = "wait"
       /\ c.op = "create_node"
       /\ \E response \in ServiceResponses(c.action) :
             LET node == FirstVm(calls[c.inv].answer)
                 next == create_node_next(c, response,
                             IF c.action = "CreateVms" THEN NoResult
                             ELSE node.value)
                 answered == [calls EXCEPT ![id].answer = response]
             IN /\ received' = [received EXCEPT
                                   ![t] = [op |-> c.op, response |-> response]]
                /\ IF next.done
                   THEN /\ calls' = answered
                        /\ result' = [result EXCEPT ![t] = next.result]
                        /\ cur' = [cur EXCEPT ![t] = NoCall]
                        /\ pc' = [pc EXCEPT ![t] = "idle"]
                   ELSE /\ calls' = Append(answered,
                                       NewCreateCall(t, next.req, c.inv))
                        /\ cur' = [cur EXCEPT ![t] = [id |-> Len(calls) + 1]]
                        /\ pc' = [pc EXCEPT ![t] = "sign"]
                        /\ UNCHANGED result
       /\ UNCHANGED <<driver, connection, signer, ctor, clock, nassign, fx>>

Tick ==
    /\ clock < StartInstant + MaxTicks
    /\ clock' = clock + 1
    /\ UNCHANGED <<driver, connection, signer, ctor, pc, cur,
                   result, calls, nassign, received, fx>>

Next ==
    \/ \E t \in Threads : Invoke(t)
    \/ \E t \in Threads : Sign(t)
    \/ \E t \in Threads : Post(t)
    \/ \E t \in Threads : Respond(t)
    \/ \E t \in Threads : Abort(t)
    \/ Tick

Spec == Init /\ [][Next]_vars

\* Operations one at a time, with all their arguments and answers.
OpsRequests ==
    {ex_list_direct_link(ids, FALSE) :
        ids \in {PyNone, PyList(<<PyStr("dxcon-1")>>)}}
    \cup {ex_list_direct_link_interfaces(PyNone,
                                         PyList(<<PyStr("dxvif-1")>>), FALSE)}
    \cup {list_volumes("{}")}
    \cup {ex_create_load_balancer_tags(PyList(<<PyStr("lb-1")>>), ks, vs,
                                        FALSE) :
             ks \in {PyNone, PyList(<<>>), PyList(<<"env">>),
                     PyList(<<"env", "tier">>)},
             vs \in {PyList(<<>>), PyList(<<"prod">>),
                     PyList(<<"prod", "web">>)}}
    \cup {attach_volume("i-1", "vol-1", device) :
             device \in {None, "/dev/sdb"}}
    \cup {create_volume("eu-west-2a", FALSE, None, size, None, None) :
             size \in {None, "10"}}

InvokeOp(t) ==
    /\ pc[t] = "idle"
    /\ \A u \in Threads : u < t => pc[u] # "idle"
    /\ Len(calls) < MaxOps
    /\ \E req \in OpsRequests :
          calls' = Append(calls, NewCall(t, req)
                                 @@ [payload |-> req.payload,
                                     args |-> req.args])
    /\ cur' = [cur EXCEPT ![t] = [id |-> Len(calls) + 1]]
    /\ pc' = [pc EXCEPT ![t] = "sign"]
    /\ result' = [result EXCEPT ![t] = NoResult]
    /\ received' = [received EXCEPT ![t] = NoResponse]
    /\ UNCHANGED <<driver, connection, signer, ctor, clock, nassign, fx>>

NextOps ==
    \/ \E t \in Threads : InvokeOp(t)
    \/ \E t \in Threads : Sign(t)
    \/ \E t \in Threads : Post(t)
    \/ \E t \in Threads : Respond(t)
    \/ \E t \in Threads : Abort(t)
    \/ Tick

SpecOps == Init /\ [][NextOps]_vars

\* create_node invocations alone.
NextCreate ==
    \/ \E t \in Threads : InvokeCreate(t)
    \/ \E t \in Threads : Sign(t)
    \/ \E t \in Threads : Post(t)
    \/ \E t \in Threads : RespondCreate(t)
    \/ \E t \in Threads : Abort(t)
    \/ Tick

SpecCreate == Init /\ [][NextCreate]_vars

\* The caller assigns the driver's public region / service_name attribute
\* while calls are in progress.
AssignRegion ==
    /\ nassign < MaxAssigns
    /\ \E t \in Threads : pc[t] # "idle"
    /\ \E r \in Regions \ {driver.region} : driver' = [driver EXCEPT !.region = r]
    /\ nassign' = nassign + 1
    /\ UNCHANGED <<connection, signer, ctor, clock, pc, cur, result,
                   calls, received, fx>>

AssignService ==
    /\ nassign < MaxAssigns
    /\ \E t \in Threads : pc[t] # "idle"
    /\ \E s \in Services \ {driver.service_name} :
          driver' = [driver EXCEPT !.service_name = s]
    /\ nassign' = nassign + 1
    /\ UNCHANGED <<connection, signer, ctor, clock, pc, cur, result,
                   calls, received, fx>>

NextReassign ==
    \/ \E t \in Threads : Invoke(t)
    \/ \E t \in Threads : Sign(t)
    \/ \E t \in Threads : Post(t)
    \/ \E t \in Threads : Respond(t)
    \/ \E t \in Threads : Abort(t)
    \/ Tick
    \/ AssignRegion
    \/ AssignService

SpecReassign == Init /\ [][NextReassign]_vars

----------------------------------------------------------------------------
\* Signing runs with a pinned instant (section 8): a driver is constructed
\* from drawn inputs, the instant is captured once, the clock may advance,
\* the signer finishes from the captured instant, the canonical request is
\* built for a drawn header list, and the next run starts with other inputs.

SignerSecrets == {"secret123", "secret456"}

SignerPayloads == {"", "{\"DryRun\":false}"}

SignerAction == "ReadVms"

SignerInputs ==
    [secret : SignerSecrets, region : Regions, service : Services,
     payload : SignerPayloads]

NoRun == [done |-> FALSE]

NewRun(inputs, prev) ==
    [stage |-> "constructed", inputs |-> inputs, now |-> 0, finished |-> 0,
     out |-> NoRun, canon |-> NoRun, prev |-> prev]

ConstructedFor(inputs) ==
    Constructed("AKIDEXAMPLE", inputs.secret, inputs.region, inputs.service,
                "latest", "outscale.com")

SignerInit ==
    \E inputs \in SignerInputs :
        LET built == ConstructedFor(inputs)
        IN /\ ctor = built.ctor
           /\ driver = built.driver
           /\ connection = built.connection
           /\ signer = built.signer
           /\ clock = StartInstant - 1
           /\ pc = [t \in Threads |-> "idle"]
           /\ cur = [t \in Threads |-> NoCall]
           /\ result = [t \in Threads |-> NoResult]
           /\ calls = <<>>
           /\ nassign = 0
           /\ received = [t \in Threads |-> NoResponse]
           /\ fx = NewRun(inputs, NoRun)

\* sign, step 1: the instant is read from the clock once.
SignCapture ==
    /\ fx.stage = "constructed"
    /\ fx' = [fx EXCEPT !.stage = "captured", !.now = clock]
    /\ UNCHANGED <<driver, connection, signer, ctor, clock, pc, cur,
                   result, calls, nassign, received>>

\* sign, steps 2-7, from the captured instant; the intermediate values of
\* the pure steps are kept next to the headers.
SignFinish ==
    /\ fx.stage = "captured"
    /\ LET a == SignerArgs(SignerAction, PyStr(fx.inputs.payload))
           pairs == HeaderPairs(a.service_name, a.region, fx.now)
       IN \E o \in get_request_headers(signer, a.action, a.data,
                                       a.service_name, a.region, fx.now) :
            /\ o.ok
            /\ fx' = [fx EXCEPT
                 !.stage = "signed",
                 !.finished = clock,
                 !.out = [done |-> TRUE,
                          headers |-> o.headers,
                          key |-> SigningKey(signer.access_secret, a.region,
                                             a.service_name, fx.now),
                          scope |-> SigningScope(a.region, a.service_name,
                                                 fx.now),
                          payload_hash |-> PayloadHash(PayloadBytes(a.data)),
                          string_to_sign |->
                              SignedString(pairs, signer.version, a.action,
                                           a.data, a.service_name, a.region,
                                           fx.now),
                          signature |->
                              Signature(pairs, signer.access_secret,
                                        signer.version, a.action, a.data,
                                        a.service_name, a.region, fx.now)]]
    /\ UNCHANGED <<driver, connection, signer, ctor, clock, pc, cur,
                   result, calls, nassign, received>>

Permuted(seq) ==
    {[i \in 1..Len(seq) |-> seq[p[i]]] :
        p \in {q \in [1..Len(seq) -> 1..Len(seq)] :
                  \A i, j \in 1..Len(seq) : q[i] = q[j] => i = j}}

WithoutContentType(seq) == SelectSeq(seq, LAMBDA p : p[1] # "Content-Type")

\* The same header set in every insertion order, with and without the
\* optional Content-Type.
HeaderLists(pairs) == Permuted(pairs) \cup Permuted(WithoutContentType(pairs))

\* The canonical request builder applied to a drawn header list and path.
Canonicalize ==
    /\ fx.stage = "signed"
    /\ LET a == SignerArgs(SignerAction, PyStr(fx.inputs.payload))
       IN \E headers \in HeaderLists(HeaderPairs(a.service_name, a.region,
                                                 fx.now)),
             uri \in {"", ActionUri(signer.version, a.action)},
             query \in {None, ""} :
            LET sorted == CanonicalPairs(headers)
            IN fx' = [fx EXCEPT
                 !.stage = "canonical",
                 !.canon = [done |-> TRUE,
                            method |-> "POST", uri |-> uri, query |-> query,
                            headers |-> headers,
                            payload |-> PayloadBytes(a.data),
                            sorted |-> sorted,
                            canonical_uri |-> CanonicalUri(uri),
                            canonical_query |-> CanonicalQuery(query),
                            canonical_headers |-> CanonicalHeaders(sorted, 1),
                            signed_headers |-> SignedHeaderNames(headers),
                            payload_hash |-> PayloadHash(PayloadBytes(a.data)),
                            canonical_request |->
                                CanonicalRequest("POST", uri, query, headers,
                                                 PayloadBytes(a.data)),
                            authorization |->
                                AuthorizationWith(headers, signer.access_key,
                                    signer.access_secret, signer.version,
                                    a.action, a.data, a.service_name,
                                    a.region, fx.now)]]
    /\ UNCHANGED <<driver, connection, signer, ctor, clock, pc, cur,
                   result, calls, nassign, received>>

\* The next run: a driver constructed from other inputs; the finished run
\* is kept for comparison.
NextRun ==
    /\ fx.stage = "signed"
    /\ \E inputs \in SignerInputs :
         LET built == ConstructedFor(inputs)
         IN /\ ctor' = built.ctor
            /\ driver' = built.driver
            /\ connection' = built.connection
            /\ signer' = built.signer
            /\ fx' = NewRun(inputs, [done |-> TRUE, inputs |-> fx.inputs,
                                     now |-> fx.now, out |-> fx.out])
    /\ UNCHANGED <<clock, pc, cur, result, calls, nassign, received>>

\* The companion verifier: the same algorithm written out on its own, from
\* the credential, region, service, action, payload and instant.
Verify(access_key, secret_key, region, service, action, payload, now) ==
    LET full == FullTimestamp(now)
        date == DateStamp(now)
        names == "content-type;host;x-<vendor>-date"
        canonical ==
            "POST\n/api/latest/" \o action \o "\n\n"
            \o "content-type:" \o CONTENT_TYPE \o "\n"
            \o "host:" \o service \o "." \o region \o "\n"
            \o "x-<vendor>-date:" \o full \o "\n\n"
            \o names \o "\n" \o SHA256(payload)
        scope == date \o "/" \o region \o "/" \o service \o "/"
                 \o ALGO_PREFIX \o "_request"
        to_sign == ALGO_PREFIX \o "-HMAC-SHA256\n" \o full \o "\n" \o scope
                   \o "\n" \o SHA256(canonical)
        key == HMAC(HMAC(HMAC(HMAC(ALGO_PREFIX \o secret_key, date), region),
                         service),
                    ALGO_PREFIX \o "_request")
    IN ALGO_PREFIX \o "-HMAC-SHA256 Credential=" \o access_key \o "/" \o scope
       \o ", SignedHeaders=" \o names \o ", Signature=" \o HMAC(key, to_sign)

NextSigner ==
    \/ SignCapture
    \/ SignFinish
    \/ Canonicalize
    \/ NextRun
    \/ Tick

SpecSigner == SignerInit /\ [][NextSigner]_vars

TypeOK ==
    /\ pc \in [Threads -> {"idle", "sign", "post", "wait"}]
    /\ Len(calls) \in 0..MaxCalls
    /\ clock \in StartInstant..(StartInstant + MaxTicks)

(***************************************************************************)
(* Properties                                                              *)
(***************************************************************************)
CallIds == 1..Len(calls)

Aborting(t) == pc[t] = "wait" /\ pc'[t] = "idle" /\ result'[t] = Raise("Timeout")

\* C1: in every _call_api the signer is asked first, for the call's action
\* and payload, and then exactly one POST carrying the returned headers is
\* issued; nothing is posted unsigned, nothing is posted twice, and aborting
\* the pending POST leaves the produced headers and the driver, connection
\* and signer as they were.
C1_SignedBeforePosted ==
    \A id \in CallIds :
        LET c == calls[id]
        IN /\ Len(c.signs) <= 1
           /\ Len(c.posts) <= 1
           /\ \A i \in 1..Len(c.posts) :
                 /\ Len(c.signs) = 1
                 /\ c.signs[1].out.ok
                 /\ c.signs[1].args.action = c.action
                 /\ c.signs[1].args.data = c.posts[i].data
                 /\ c.posts[i].headers = c.signs[1].out.headers
           /\ \A t \in Threads :
                 (pc[t] = "wait" /\ cur[t].id = id) => Len(c.posts) = 1

C1_AbortKeepsState ==
    \A t \in Threads :
        Aborting(t) => /\ calls' = calls
                       /\ driver' = driver
                       /\ connection' = connection
                       /\ signer' = signer

C1_SignThenPostOnce == [](C1_SignedBeforePosted) /\ [][C1_AbortKeepsState]_vars

C1_Witness ==
    \E t \in Threads, id \in CallIds :
        /\ result[t] = Raise("Timeout")
        /\ calls[id].t = t
        /\ Len(calls[id].posts) = 1

\* C2: the payload given to the signer is the body given to the transport,
\* unchanged, and it is an already serialized JSON string.
C2_PayloadIsSerializedJson ==
    \A id \in CallIds :
        LET c == calls[id]
        IN /\ \A i \in 1..Len(c.signs) : c.signs[i].args.data.t = "str"
           /\ \A i \in 1..Len(c.posts) :
                 /\ c.posts[i].data = c.signs[1].args.data
                 /\ c.posts[i].data.t = "str"
                 /\ c.posts[i].body = c.posts[i].data.v

\* C3: the region bound into a call's signature is the region of the URL the
\* call is posted to, whatever is assigned to the driver's fields meanwhile.
C3_SignedRegionIsPostedRegion ==
    \A id \in CallIds :
        LET c == calls[id]
        IN \A i \in 1..Len(c.posts) :
              c.posts[i].url =
                  _get_outscale_endpoint(c.signs[1].args.region,
                                         driver.version, c.action)

OkSigns(id) ==
    {i \in 1..Len(calls[id].signs) : calls[id].signs[i].out.ok}

\* The header set a sign call returns when it is the only one running, for
\* the call's own action and payload, the driver's configuration as it was
\* constructed, and the instant `now`.
HeadersAlone(c, now) ==
    LET outs == get_request_headers(
                    [access_key |-> ctor.key, access_secret |-> ctor.secret,
                     version |-> ctor.version],
                    c.action, c.data, ctor.service, ctor.region, now)
    IN (CHOOSE out \in outs : out.ok).headers

\* C4: under every interleaving of concurrent calls sharing the signer, the
\* header set a call holds and sends is the one the signer returns for that
\* call's inputs and timestamp when run alone.
C4_ConcurrentSignIsolated ==
    /\ \A t \in Threads :
          pc[t] \in {"post", "wait"} =>
              LET c == calls[cur[t].id]
              IN cur[t].headers = HeadersAlone(c, c.signs[1].now)
    /\ \A id \in CallIds :
          \A i \in 1..Len(calls[id].posts) :
              calls[id].posts[i].headers =
                  HeadersAlone(calls[id], calls[id].signs[1].now)

C4_Witness ==
    /\ \A t \in Threads : pc[t] = "post"
    /\ \E t, u \in Threads :
          calls[cur[t].id].data # calls[cur[u].id].data

\* C5: when the access key or the secret key is absent or empty, every sign
\* call fails with MissingCredential, no header set is held by any call and
\* nothing is posted; no sign call succeeds with a missing credential.
C5_MissingCredentialNeverSigned ==
    /\ MissingCredential(ctor.key, ctor.secret) =>
          /\ \A t \in Threads : pc[t] \notin {"post", "wait"}
          /\ \A id \in CallIds :
                /\ calls[id].posts = <<>>
                /\ \A i \in 1..Len(calls[id].signs) :
                      /\ ~calls[id].signs[i].out.ok
                      /\ calls[id].signs[i].out.error = "MissingCredential"
    /\ \A id \in CallIds :
          OkSigns(id) # {} =>
              ~MissingCredential(signer.access_key, signer.access_secret)

C5_Witness ==
    /\ ctor.key = None
    /\ ctor.secret = None
    /\ \E t \in Threads : result[t] = Raise("MissingCredential")
    /\ \E id \in CallIds : Len(calls[id].signs) = 1

C8_CredentialImmutable ==
    /\ driver.key = ctor.key
    /\ driver.secret = ctor.secret
    /\ signer.access_key = ctor.key
    /\ signer.access_secret = ctor.secret
    /\ connection.user_id = ctor.key
    /\ connection.key = ctor.secret

C8_Witness ==
    /\ ctor.secret = "secret123"
    /\ Len(calls) = MaxCalls
    /\ \A id \in CallIds : Len(calls[id].posts) = 1
    /\ \A t \in Threads : pc[t] = "idle"

FourHeaders == {"Host", DATE_HEADER, "Content-Type", "Authorization"}

\* C9: a sign call either returns the complete header set (Host, the date
\* header with the full timestamp, Content-Type and Authorization) or fails
\* with MissingCredential or MalformedInput; every POST carries all four
\* headers.
C9_CompleteHeadersOrTypedError ==
    \A id \in CallIds :
        /\ \A i \in 1..Len(calls[id].signs) :
              LET s == calls[id].signs[i]
              IN IF s.out.ok
                 THEN /\ DOMAIN s.out = {"ok", "headers"}
                      /\ DOMAIN s.out.headers = FourHeaders
                      /\ s.out.headers[DATE_HEADER] = FullTimestamp(s.now)
                      /\ s.out.headers["Content-Type"] =
                             "application/json; charset=utf-8"
                 ELSE /\ DOMAIN s.out = {"ok", "error"}
                      /\ s.out.error \in {"MissingCredential", "MalformedInput"}
        /\ \A i \in 1..Len(calls[id].posts) :
              /\ DOMAIN calls[id].posts[i].headers = FourHeaders
              /\ calls[id].posts[i].headers["Content-Type"] =
                     "application/json; charset=utf-8"

C9_Witness ==
    \E id1, id2 \in CallIds :
        /\ Len(calls[id1].posts) = 1
        /\ Len(calls[id2].signs) = 1
        /\ ~calls[id2].signs[1].out.ok

\* C10: every call is posted to 'https://api.' + region + '.' + base_uri +
\* '/api/' + version + '/' + action, with the driver's region, base_uri and
\* version and the action name of the operation.
C10_EndpointUrl ==
    \A id \in CallIds :
        \A i \in 1..Len(calls[id].posts) :
            calls[id].posts[i].url =
                "https://api." \o driver.region \o "." \o driver.base_uri
                \o "/api/" \o driver.version \o "/" \o calls[id].action

C10_Witness ==
    \E id1, id2 \in CallIds :
        /\ Len(calls[id1].posts) = 1
        /\ Len(calls[id2].posts) = 1
        /\ calls[id1].action # calls[id2].action
        /\ driver.region = "us-east-1"

Answered(t) == received[t] # NoResponse

Rejected(t) ==
    Answered(t) /\ received[t].response.status_code \in {401, 403}

BooleanOps == {"ex_delete_public_ip", "reboot_node"}
UncheckedOps == {"list_nodes", "get_image", "list_volume_snapshots"}

\* C11: when the service rejects a signed request with 401 or 403, the
\* caller of the operation receives the HTTP status and the response body.
C11_RejectionReachesCaller ==
    \A t \in Threads :
        Rejected(t) =>
            /\ result[t].kind = "value"
            /\ result[t].value = received[t].response

----------------------------------------------------------------------------
\* Claims about the pure signing steps, checked on SpecSigner.

Signed == fx.stage \in {"signed", "canonical"}

\* A finished earlier run is kept next to a finished current run.
Paired == Signed /\ fx.prev.done

SameScope(a, b, anow, bnow) ==
    /\ a.region = b.region
    /\ a.service = b.service
    /\ DateStamp(anow) = DateStamp(bnow)

\* C13: the signing key is the four-stage chain, in the order date stamp,
\* region, service, terminator, keyed first by the prefixed secret; equal
\* inputs give equal keys, and two secrets with the same date stamp, region
\* and service give different keys.
C13_KeyDerivationChain ==
    /\ Signed =>
         fx.out.key =
             HMAC(HMAC(HMAC(HMAC(ALGO_PREFIX \o fx.inputs.secret,
                                 DateStamp(fx.now)),
                            fx.inputs.region),
                       fx.inputs.service),
                  ALGO_PREFIX \o "_request")
    /\ (Paired /\ SameScope(fx.inputs, fx.prev.inputs, fx.now, fx.prev.now)) =>
         (fx.out.key = fx.prev.out.key
            <=> fx.inputs.secret = fx.prev.inputs.secret)

C13_Witness ==
    /\ Paired
    /\ SameScope(fx.inputs, fx.prev.inputs, fx.now, fx.prev.now)
    /\ fx.inputs.secret # fx.prev.inputs.secret
    /\ fx.out.key # fx.prev.out.key

\* C14: the signature is bound to the credential scope: two signing runs
\* whose region, service or date stamp differ have different signing keys,
\* different signatures and different Authorization values, also when the
\* secret, the payload and the action are the same; and the scope named in
\* the Authorization value is that of the driver's region and service.
C14_SignatureBoundToScope ==
    /\ Signed =>
         /\ fx.out.scope = CredentialScope(DateStamp(fx.now), driver.region,
                                           driver.service_name)
         /\ fx.out.headers["Authorization"] =
                ALGO_PREFIX \o "-HMAC-SHA256 Credential=" \o driver.key
                \o "/" \o fx.out.scope
                \o ", SignedHeaders=content-type;host;x-<vendor>-date"
                \o ", Signature=" \o fx.out.signature
    /\ (Paired /\ ~SameScope(fx.inputs, fx.prev.inputs, fx.now, fx.prev.now)) =>
         /\ fx.out.key # fx.prev.out.key
         /\ fx.out.signature # fx.prev.out.signature
         /\ fx.out.headers["Authorization"]
                # fx.prev.out.headers["Authorization"]

C14_Witness ==
    /\ Paired
    /\ fx.inputs.region # fx.prev.inputs.region
    /\ fx.inputs.service = fx.prev.inputs.service
    /\ fx.inputs.secret = fx.prev.inputs.secret
    /\ fx.inputs.payload = fx.prev.inputs.payload
    /\ fx.now = fx.prev.now
    /\ fx.out.signature # fx.prev.out.signature

Canonical == fx.stage = "canonical"

HasContentType(headers) ==
    \E i \in 1..Len(headers) : headers[i][1] = "Content-Type"

\* The header list sign builds, and the same list without Content-Type.
BuiltHeaders == HeaderPairs(driver.service_name, driver.region, fx.now)

ReferenceHeaders(headers) ==
    IF HasContentType(headers) THEN BuiltHeaders
    ELSE WithoutContentType(BuiltHeaders)

\* C15: the canonical header block, the signed-headers list, the canonical
\* request and the Authorization value do not depend on the order in which
\* the same headers were inserted.
C15_HeaderPermutationStable ==
    Canonical =>
        LET c == fx.canon
            ref == ReferenceHeaders(c.headers)
        IN /\ c.canonical_headers = CanonicalHeaders(CanonicalPairs(ref), 1)
           /\ c.signed_headers = SignedHeaders(CanonicalPairs(ref), 1)
           /\ c.canonical_request =
                  CanonicalRequest(c.method, c.uri, c.query, ref, c.payload)
           /\ (HasContentType(c.headers)
                 /\ c.uri = ActionUri(driver.version, SignerAction)) =>
                  c.authorization = fx.out.headers["Authorization"]

C15_Witness ==
    /\ Canonical
    /\ Len(fx.canon.headers) = 3
    /\ fx.canon.headers[1][1] = DATE_HEADER
    /\ fx.canon.headers[2][1] = "Content-Type"
    /\ fx.canon.uri # ""
    /\ fx.canon.authorization = fx.out.headers["Authorization"]

\* C16: the canonical request is the method, the canonical path, the
\* canonical query, the header block, the signed-headers list and the payload
\* hash, in that order, each followed by a newline except the hash; an empty
\* path is "/", an absent query is the empty string, and the payload hash is
\* the hash of the payload alone, whatever the credentials.
C16_CanonicalRequestShape ==
    /\ Canonical =>
         LET c == fx.canon
             with_type == HasContentType(c.headers)
         IN /\ c.canonical_request =
                  "POST" \o "\n"
                  \o (IF c.uri = "" THEN "/" ELSE c.uri) \o "\n"
                  \o "" \o "\n"
                  \o (IF with_type
                      THEN "content-type:" \o CONTENT_TYPE \o "\n" ELSE "")
                  \o "host:" \o fx.inputs.service \o "." \o fx.inputs.region
                  \o "\n"
                  \o "x-<vendor>-date:" \o FullTimestamp(fx.now) \o "\n"
                  \o "\n"
                  \o (IF with_type THEN "content-type;" ELSE "")
                  \o "host;x-<vendor>-date" \o "\n"
                  \o SHA256(fx.inputs.payload)
            /\ c.payload_hash = SHA256(fx.inputs.payload)
    /\ Signed => fx.out.payload_hash = SHA256(fx.inputs.payload)
    /\ Paired =>
         (fx.out.payload_hash = fx.prev.out.payload_hash
            <=> fx.inputs.payload = fx.prev.inputs.payload)

C16_Witness ==
    /\ Canonical
    /\ fx.canon.uri = ""
    /\ fx.canon.query = None
    /\ fx.inputs.payload = ""
    /\ fx.prev.done
    /\ fx.prev.inputs.payload = ""
    /\ fx.prev.inputs.secret # fx.inputs.secret
    /\ fx.out.payload_hash = fx.prev.out.payload_hash

LoweredNames(headers) ==
    {LowerName(headers[i][1]) : i \in 1..Len(headers)}

\* C17: the signed-headers list is the lower-cased names of the headers of
\* the canonical block, in ascending order, joined by ";": it names host and
\* the date header always, and content-type exactly when that header is
\* there, in whatever order the headers were inserted.
C17_SignedHeadersList ==
    Canonical =>
        LET c == fx.canon
            n == Len(c.sorted)
        IN /\ {c.sorted[i][1] : i \in 1..n} = LoweredNames(c.headers)
           /\ n = Len(c.headers)
           /\ \A i \in 1..(n - 1) : NameLess(c.sorted[i][1], c.sorted[i + 1][1])
           /\ c.signed_headers =
                  IF n = 3
                  THEN c.sorted[1][1] \o ";" \o c.sorted[2][1] \o ";"
                       \o c.sorted[3][1]
                  ELSE c.sorted[1][1] \o ";" \o c.sorted[2][1]
           /\ c.signed_headers =
                  IF HasContentType(c.headers)
                  THEN "content-type;host;x-<vendor>-date"
                  ELSE "host;x-<vendor>-date"

C17_Witness ==
    /\ Canonical
    /\ ~HasContentType(fx.canon.headers)
    /\ fx.canon.headers[1][1] = DATE_HEADER
    /\ fx.canon.signed_headers = "host;x-<vendor>-date"

\* C18: a different payload gives a different payload hash, and a
\* different payload or an instant different by a second or more gives a
\* different string to sign and a different signature, whatever the other
\* inputs are.
C18_Avalanche ==
    Paired =>
        /\ fx.inputs.payload # fx.prev.inputs.payload =>
              /\ fx.out.payload_hash # fx.prev.out.payload_hash
              /\ fx.out.string_to_sign # fx.prev.out.string_to_sign
              /\ fx.out.signature # fx.prev.out.signature
              /\ fx.out.headers["Authorization"]
                     # fx.prev.out.headers["Authorization"]
        /\ fx.now # fx.prev.now =>
              /\ fx.out.string_to_sign # fx.prev.out.string_to_sign
              /\ fx.out.signature # fx.prev.out.signature
              /\ fx.out.headers["Authorization"]
                     # fx.prev.out.headers["Authorization"]

\* Two runs a second apart in the same UTC day, all else equal.
C18_Witness ==
    /\ Paired
    /\ fx.inputs = fx.prev.inputs
    /\ fx.now = fx.prev.now + 1
    /\ DateStamp(fx.now) = DateStamp(fx.prev.now)
    /\ fx.out.signature # fx.prev.out.signature

TimeOfDay(now) ==
    LET s == now % SECONDS_PER_DAY
    IN Pad2(s \div 3600) \o Pad2((s % 3600) \div 60) \o Pad2(s % 60)

\* C19: everything a signing run dates is dated from the one captured
\* instant, wherever the clock stands when the run finishes: the date header
\* and the string to sign carry its full timestamp, the credential scope and
\* the key derivation its date stamp, and the date stamp is the date part of
\* that timestamp.
C19_TimeCapturedOnce ==
    Signed =>
        LET date == DateStamp(fx.now)
            full == date \o "T" \o TimeOfDay(fx.now) \o "Z"
        IN /\ fx.out.headers[DATE_HEADER] = full
           /\ fx.out.scope =
                  date \o "/" \o fx.inputs.region \o "/" \o fx.inputs.service
                  \o "/" \o ALGO_PREFIX \o "_request"
           /\ fx.out.key =
                  DeriveSigningKey(fx.inputs.secret, date, fx.inputs.region,
                                   fx.inputs.service)
           /\ fx.out.string_to_sign =
                  StringToSign(full, fx.out.scope,
                      CanonicalRequest("POST",
                          ActionUri(driver.version, SignerAction), "",
                          <<<<"Host", HostOf(fx.inputs.service,
                                             fx.inputs.region)>>,
                            <<DATE_HEADER, full>>,
                            <<"Content-Type", CONTENT_TYPE>>>>,
                          fx.inputs.payload))
           /\ fx.out.signature = HMAC(fx.out.key, fx.out.string_to_sign)

\* A run that captured the instant before a UTC midnight and finished after.
C19_Witness ==
    /\ Signed
    /\ DateStamp(fx.finished) # DateStamp(fx.now)
    /\ fx.out.scope = SigningScope(fx.inputs.region, fx.inputs.service, fx.now)

\* C20: the companion verifier, given the credential, region, service,
\* action, payload and instant of a signing run, rebuilds exactly the
\* Authorization value the run returned.
C20_RoundTrip ==
    Signed =>
        fx.out.headers["Authorization"] =
            Verify(ctor.key, ctor.secret, ctor.region, ctor.service,
                   SignerAction, fx.inputs.payload, fx.now)

C20_Witness ==
    /\ Signed
    /\ fx.inputs.payload # ""
    /\ fx.inputs.region = "us-east-1"
    /\ fx.inputs.service = "fcu"
    /\ fx.now = SECONDS_PER_DAY
    /\ fx.out.headers["Authorization"] =
           Verify("AKIDEXAMPLE", fx.inputs.secret, "us-east-1", "fcu",
                  SignerAction, fx.inputs.payload, fx.now)

----------------------------------------------------------------------------
\* The names of the errors an operation can end with.
ErrorNames ==
    {"MissingCredential", "MalformedInput", "Timeout", "KeyError",
     "IndexError", "RecursionError"}

\* C21: the secret key stays in the signer: the URL is built from the
\* region, the base URI, the version and the action; the body is the
\* operation's payload; Host, the date header and Content-Type are built
\* from the service, the region and the instant; Authorization names the
\* access key id and the scope and carries the secret only inside the
\* signature digest; and an error is one of the fixed error names.
C21_SecretStaysInSigner ==
    /\ \A id \in CallIds :
          LET c == calls[id]
          IN /\ \A i \in 1..Len(c.posts) :
                   LET p == c.posts[i]
                   IN /\ p.url =
                             "https://api." \o driver.region \o "."
                             \o driver.base_uri \o "/api/" \o driver.version
                             \o "/" \o c.action
                      /\ p.body = RequestBody(c.data)
                      /\ p.headers["Host"] =
                             driver.service_name \o "." \o driver.region
                      /\ p.headers["Content-Type"] = CONTENT_TYPE
                      /\ \E k \in 1..Len(c.signs) :
                            LET now == c.signs[k].now
                                scope == CredentialScope(DateStamp(now),
                                             driver.region,
                                             driver.service_name)
                            IN /\ p.headers[DATE_HEADER] = FullTimestamp(now)
                               /\ p.headers["Authorization"] =
                                      ALGO_PREFIX
                                      \o "-HMAC-SHA256 Credential="
                                      \o driver.key \o "/" \o scope
                                      \o ", SignedHeaders="
                                      \o "content-type;host;x-<vendor>-date"
                                      \o ", Signature="
                                      \o Signature(
                                             HeaderPairs(driver.service_name,
                                                         driver.region, now),
                                             driver.secret, driver.version,
                                             c.action, c.data,
                                             driver.service_name,
                                             driver.region, now)
             /\ \A k \in 1..Len(c.signs) :
                   ~c.signs[k].out.ok => c.signs[k].out.error \in ErrorNames
    /\ \A t \in Threads : result[t].kind = "exc" => result[t].exc \in ErrorNames

C21_Witness ==
    /\ driver.secret = "secret123"
    /\ \E id \in CallIds : Len(calls[id].posts) = 1
    /\ \E t \in Threads : result[t].kind = "exc"

----------------------------------------------------------------------------
\* Claims about create_node, checked on SpecCreate.

\* The create_node invocations, each named by its first call.
Invocations ==
    {id \in CallIds : calls[id].op = "create_node" /\ calls[id].inv = id}

CreateCalls(inv) ==
    {id \in CallIds : calls[id].op = "create_node" /\ calls[id].inv = inv}

\* The position of a call among the calls of its invocation.
Pos(id) == Cardinality({j \in CreateCalls(calls[id].inv) : j <= id})

CallAt(inv, k) == CHOOSE id \in CreateCalls(inv) : Pos(id) = k

\* The invocation has returned to its caller, and the thread's result is its.
Returned(inv) ==
    /\ pc[calls[inv].t] = "idle"
    /\ \A other \in Invocations : calls[other].t = calls[inv].t => other <= inv

CreateOrder == <<"CreateVms", "CreateTags", "ReadVms">>

\* C22: the calls of a create_node invocation are CreateVms, CreateTags,
\* ReadVms in that order, each posted at most once; without a name there is
\* only the CreateVms call and the node of its first VM is returned; with a
\* name CreateTags names the id of the VM just created with Key 'Name' and
\* the given value, ReadVms is filtered on that id, and the node of the
\* first VM of the ReadVms response is returned.
C22_CreateNodeCallOrder ==
    \A inv \in Invocations :
        LET n == Cardinality(CreateCalls(inv))
            first == calls[inv]
            t == first.t
        IN /\ n <= 3
           /\ \A id \in CreateCalls(inv) :
                 /\ calls[id].action = CreateOrder[Pos(id)]
                 /\ Len(calls[id].posts) <= 1
                 /\ Pos(id) < n => Len(calls[id].posts) = 1
           /\ first.name = None => n = 1
           /\ n >= 2 =>
                 /\ first.answer.status_code = 200
                 /\ calls[CallAt(inv, 2)].data =
                        PyStr("{\"DryRun\": false, \"ResourceIds\": [\""
                              \o first.answer.json["Vms"][1].VmId
                              \o "\"], \"Tags\": {\"Key\": \"Name\", "
                              \o "\"Value\": \"" \o first.name \o "\"}}")
           /\ n = 3 =>
                 /\ calls[CallAt(inv, 2)].answer.status_code = 200
                 /\ calls[CallAt(inv, 3)].data =
                        PyStr("{\"DryRun\": false, \"Filters\": {\"VmIds\": [\""
                              \o first.answer.json["Vms"][1].VmId \o "\"]}}")
           /\ (Returned(inv) /\ result[t].kind = "value"
                 /\ result[t].value # PyBool(FALSE)) =>
                 LET last == calls[CallAt(inv, n)]
                     vm == last.answer.json["Vms"][1]
                 IN /\ n = IF first.name = None THEN 1 ELSE 3
                    /\ result[t].value.id = vm.VmId
                    /\ result[t].value.state = NODE_STATE[vm.State]
                    /\ result[t].value.extra = vm

C22_Witness ==
    \E inv \in Invocations :
        /\ Returned(inv)
        /\ calls[inv].name = "web"
        /\ Cardinality(CreateCalls(inv)) = 3
        /\ calls[inv].answer.json["Vms"][1].VmId = "i-3"
        /\ result[calls[inv].t].kind = "value"
        /\ result[calls[inv].t].value.id = "i-1"

\* C23: when the CreateTags call of a create_node invocation is answered
\* with a status other than 200, the invocation makes no further call,
\* neither ReadVms nor DeleteVms, and returns False, although its CreateVms
\* call was answered 200 with the VM created.
C23_TagFailureLeavesVm ==
    \A inv \in Invocations :
        LET n == Cardinality(CreateCalls(inv))
        IN (n >= 2 /\ calls[CallAt(inv, 2)].answer # NoResponse
                   /\ calls[CallAt(inv, 2)].answer.status_code # 200) =>
              /\ n = 2
              /\ calls[CallAt(inv, 2)].action = "CreateTags"
              /\ \A id \in CallIds :
                    calls[id].action \notin {"DeleteVms", "DeleteTags"}
              /\ calls[inv].answer.status_code = 200
              /\ Len(calls[inv].answer.json["Vms"]) = 1
              /\ Returned(inv) =>
                    result[calls[inv].t] = Value(PyBool(FALSE))

C23_Witness ==
    \E inv \in Invocations :
        /\ Returned(inv)
        /\ Cardinality(CreateCalls(inv)) = 2
        /\ calls[CallAt(inv, 2)].answer # NoResponse
        /\ calls[CallAt(inv, 2)].answer.status_code = 401
        /\ result[calls[inv].t] = Value(PyBool(FALSE))

----------------------------------------------------------------------------
\* Claims about single operations, checked on SpecOps.

ListingOps == {"ex_list_direct_link", "ex_list_direct_link_interfaces"}

ReadActions == {"ReadDirectLinks", "ReadDirectLinkInterfaces"}

\* C24: the action a listing operation signs and posts is a Read action.
C24_ListingSendsReadAction ==
    \A id \in CallIds :
        calls[id].op \in ListingOps =>
            /\ calls[id].action \in ReadActions
            /\ \A i \in 1..Len(calls[id].signs) :
                  calls[id].signs[i].args.action \in ReadActions

\* C25: list_volumes returns one StorageVolume per volume of the
\* ReadVolumes response, in response order.
C25_ListVolumesReturnsVolumes ==
    \A t \in Threads :
        (Answered(t) /\ received[t].op = "list_volumes"
           /\ received[t].response.status_code = 200) =>
            LET volumes == received[t].response.json["Volumes"]
            IN /\ result[t].kind = "value"
               /\ Len(result[t].value) = Len(volumes)
               /\ \A i \in 1..Len(volumes) :
                     result[t].value[i] = _to_volume(volumes[i]).value

NodeStateOf(state) ==
    CASE state = "pending" -> "PENDING"
      [] state = "running" -> "RUNNING"
      [] state = "shutting-down" -> "UNKNOWN"
      [] state = "terminated" -> "TERMINATED"
      [] state = "stopped" -> "STOPPED"
      [] OTHER -> "<no such key>"

FiveStates == {"pending", "running", "shutting-down", "terminated", "stopped"}

\* C27: list_nodes answered with the VMs of a ReadVms response returns one
\* Node per VM, in response order, with the VM's id and the state pending ->
\* PENDING, running -> RUNNING, shutting-down -> UNKNOWN, terminated ->
\* TERMINATED, stopped -> STOPPED; when a VM has another state the listing
\* ends with KeyError and returns no Node.
C27_ListNodesStates ==
    \A t \in Threads :
        (Answered(t) /\ received[t].op = "list_nodes"
           /\ received[t].response.status_code = 200) =>
            LET vms == received[t].response.json["Vms"]
            IN IF \A i \in 1..Len(vms) : vms[i].State \in FiveStates
               THEN /\ result[t].kind = "value"
                    /\ Len(result[t].value) = Len(vms)
                    /\ \A i \in 1..Len(vms) :
                          /\ result[t].value[i].id = vms[i].VmId
                          /\ result[t].value[i].state = NodeStateOf(vms[i].State)
                          /\ result[t].value[i].extra = vms[i]
               ELSE result[t] = Raise("KeyError")

C27_Witness ==
    \E t, u \in Threads :
        /\ Answered(t)
        /\ received[t].op = "list_nodes"
        /\ result[t].kind = "value"
        /\ Len(result[t].value) = 2
        /\ result[t].value[2].state = "UNKNOWN"
        /\ Answered(u)
        /\ received[u].op = "list_nodes"
        /\ result[u] = Raise("KeyError")

HasKey(d, k) == \E i \in 1..Len(d.v) : d.v[i][1] = k

Lookup(d, k) == d.v[CHOOSE i \in 1..Len(d.v) : d.v[i][1] = k][2]

\* The key/value pairs a "Tags" entry carries, be it one tag or a list.
CarriedPairs(tags) ==
    IF tags.t = "list"
    THEN {<<Lookup(tags.v[i], "Key").v, Lookup(tags.v[i], "Value").v>> :
             i \in 1..Len(tags.v)}
    ELSE IF HasKey(tags, "Key") /\ HasKey(tags, "Value")
    THEN {<<Lookup(tags, "Key").v, Lookup(tags, "Value").v>>}
    ELSE {}

\* C28: the body of ex_create_load_balancer_tags is the serialized payload;
\* for non-empty tag_keys and tag_values of equal length it carries every
\* key with the value at the same position, and otherwise no tag.
C28_AllTagsInBody ==
    \A id \in CallIds :
        calls[id].op = "ex_create_load_balancer_tags" =>
            LET tag_keys == calls[id].args[2]
                tag_values == calls[id].args[3]
                tags == Lookup(calls[id].payload, "Tags")
            IN /\ calls[id].data = json_dumps(calls[id].payload)
               /\ \A i \in 1..Len(calls[id].posts) :
                     calls[id].posts[i].body = calls[id].data.v
               /\ CarriedPairs(tags) =
                     IF Truthy(tag_keys) /\ Truthy(tag_values)
                        /\ Len(tag_keys.v) = Len(tag_values.v)
                     THEN {<<tag_keys.v[i], tag_values.v[i]>> :
                              i \in 1..Len(tag_keys.v)}
                     ELSE {}

RECURSIVE NoNull(_)
NoNull(x) ==
    CASE x.t = "none" -> FALSE
      [] x.t = "list" -> \A i \in 1..Len(x.v) : NoNull(x.v[i])
      [] x.t = "dict" -> \A i \in 1..Len(x.v) : NoNull(x.v[i][2])
      [] OTHER -> TRUE

\* C30: no field of a body built from keyword arguments is null.
C30_NoNullField ==
    \A id \in CallIds :
        calls[id].payload.t = "dict" =>
            /\ calls[id].data = json_dumps(calls[id].payload)
            /\ NoNull(calls[id].payload)

\* C29: get_image sends ReadImages filtered on the image id and, answered
\* 200 with the image, returns a NodeImage with the image's ImageId as id and
\* the value of its 'Name' tag, or the empty string, as name.
C29_GetImageReturnsImage ==
    /\ \A id \in CallIds :
          calls[id].op = "get_image" =>
              /\ calls[id].action = "ReadImages"
              /\ calls[id].data =
                     PyStr("{\"Filters\": {\"ImageIds\": [\"ami-1\"]}}")
    /\ \A t \in Threads :
          (Answered(t) /\ received[t].op = "get_image"
             /\ received[t].response.status_code = 200) =>
              LET image == received[t].response.json["Images"][1]
              IN /\ result[t].kind = "value"
                 /\ result[t].value.id = image.ImageId
                 /\ result[t].value.id = "ami-1"
                 /\ result[t].value.name = TagName(image.Tags, 1, "")

====
